---- MODULE Spec2Model ----
(***************************************************************************)
(* State-machine model of the Synth component (src/components/Synth.js):   *)
(* the React state (pressedKeys, currentNote, control, envelope, lfo), the *)
(* refs (voicesRef, envelopeRef, arpClockRef, the LFO-depth gain's edges)  *)
(* and the handlers that act on them.  One action is one handler run to    *)
(* completion together with the re-render it causes and the arp effect     *)
(* that the re-render re-runs.                                             *)
(*                                                                         *)
(* Times are in tenths of a second, gain levels in tenths.                 *)
(***************************************************************************)
EXTENDS Integers, Sequences, FiniteSets, TLC

VARIABLES
    pressedKeys,   \* useState([])          : sequence of note names, press order
    currentNote,   \* useState(null)        : NoNote (null) or a 0-based index
    control,       \* useState(DEFAULTS.control)
    envelope,      \* useState(DEFAULTS.envelope)
    envelopeRef,   \* useRef(DEFAULTS.envelope)
    lfo,           \* useState(DEFAULTS.lfo), the destination field
    voices,        \* voicesRef.current     : set of entries keyed by note name
    chains,        \* per note name: oscillator pairs started, never stopped,
                   \*   still connected into the shared filter
    lfoEdges,      \* outgoing connections of lfoGainRef.current, per target
    lfoNode,       \* lfoGainRef.current.gain.value, lfoRef.current.type and
                   \*   the value last scheduled on lfoRef.current.frequency
    lfoWrites,     \* the LFO fields the last step wrote or scheduled
    arpClock,      \* arpClockRef.current   : whether a timeout is pending
    err,           \* TRUE once a handler or effect has thrown
    lastOp,        \* the event handled by the last step and its note
    played,        \* the note the last step's effect run gave to playArpNote
                   \*   ("" when it gave none)
    ramped         \* the notes on whose vca the last step scheduled a
                   \*   release ramp (destroyOscillator, lines 214-218)

vars == <<pressedKeys, currentNote, control, envelope, envelopeRef, lfo,
          voices, chains, lfoEdges, lfoNode, lfoWrites, arpClock, err,
          lastOp, played, ramped>>

-----------------------------------------------------------------------------
(* Bounds of the model *)

\* chains[n] and the LFO edge counts saturate here ("MaxChains or more")
MaxChains == 2
\* the arp timeout is not modelled beyond this cursor value
MaxCursor == 3

(* Program constants *)

\* vca.gain.linearRampToValueAtTime(0.1, ...): the fixed peak, in tenths
PeakLevel == 1
\* playArpNote: currentTime + 1, in tenths of a second
ArpGate == 10
\* null (currentNote)
NoNote == -1

\* arpClockRef: no timeout pending / a timeout pending.  The delay of the
\* timeout (60 / control.tempo seconds) is not modelled: a pending timeout
\* may fire at any later step, which covers every tempo.
NoTimer == "none"
Armed == "armed"

\* NOTES entries with a frequency, and one entry whose frequency is absent
GoodNotes == {"C", "E"}
BadNotes == {"X"}
Notes == GoodNotes \cup BadNotes

\* note.frequency; 0 stands for an absent or invalid (falsy) frequency
Frequency(n) == IF n \in GoodNotes THEN 440 ELSE 0

DefaultEnvelope == [attack |-> 0, decay |-> 5, sustain |-> 2, release |-> 0]
Envelopes == {DefaultEnvelope,
              [attack |-> 1, decay |-> 5, sustain |-> 2, release |-> 5],
              [attack |-> 2, decay |-> 3, sustain |-> 4, release |-> 20]}

\* DEFAULTS.control without the tempo
DefaultControl == [latch |-> FALSE, arp |-> FALSE]

Destinations == {"filter", "osc1", "osc2"}

\* DEFAULTS.lfo (the level in tenths)
DefaultLFO == [frequency |-> 1, level |-> 0, destination |-> "filter",
               type |-> "triangle"]
\* The records the LFO panel can pass to its onChange
LFOLevels == {0, 5}
LFOTypes == {"triangle", "sine"}
LFOFrequencies == {1, 2}
LFOSettings == [frequency : LFOFrequencies, level : LFOLevels,
                destination : Destinations, type : LFOTypes]

-----------------------------------------------------------------------------
(* Helpers *)

Range(s) == {s[i] : i \in 1..Len(s)}

\* [...pressedKeys].filter((n) => n.name !== note.name)
Filter(s, n) == SelectSeq(s, LAMBDA x : x # n)

Bump(k, max) == IF k < max THEN k + 1 ELSE max

\* voicesRef.current[name] is set
HasVoice(vs, n) == \E v \in vs : v.name = n
VoiceOf(vs, n) == CHOOSE v \in vs : v.name = n

\* The audio-side state the handlers mutate through refs, threaded through
\* the calls of one step, and the release ramps the step has scheduled.
Audio(vs, ch, le, e) ==
    [voices |-> vs, chains |-> ch, lfoEdges |-> le, err |-> e, ramped |-> {}]

-----------------------------------------------------------------------------
(* destroyOscillator (lines 209-219) *)

\* cancelAndHoldAtTime(now) removes the automation still in the future, a
\* pending arp note-off included; then a ramp to 0 over the live
\* envelopeRef release is scheduled.  The entry stays in voicesRef.
DestroyOscillator(A, n) ==
    IF ~HasVoice(A.voices, n) THEN A
    ELSE LET v == VoiceOf(A.voices, n)
             w == [v EXCEPT !.released = TRUE,
                            !.relDur = envelopeRef.release,
                            !.arpOff = IF v.arpOff = "pending" THEN "none"
                                       ELSE v.arpOff]
         IN [A EXCEPT !.voices = (A.voices \ {v}) \cup {w},
                      !.ramped = A.ramped \cup {n}]

(* createOscillator (lines 158-207) *)

\* Faulty variant of EnvelopeSchedule: the decay ramp ends at currentTime + decay
EnvelopeScheduleNoAttack ==
    << [op |-> "set",  value |-> 0,         at |-> 0],
       [op |-> "ramp", value |-> PeakLevel, at |-> envelopeRef.attack],
       [op |-> "ramp", value |-> envelope.sustain, at |-> envelopeRef.decay] >>

\* The automation scheduled on the new vca (lines 190-201): attack and decay
\* end times from envelopeRef, the sustain level from the envelope state.
EnvelopeSchedule ==
    << [op |-> "set",  value |-> 0,         at |-> 0],
       [op |-> "ramp", value |-> PeakLevel, at |-> envelopeRef.attack],
       [op |-> "ramp", value |-> envelope.sustain,
                       at |-> envelopeRef.attack + envelopeRef.decay] >>

\* lfoGainRef.current.connect(oscillatorK.detune) when lfo.destination is oscK
ConnectLFO(le) ==
    IF lfo \in {"osc1", "osc2"}
    THEN [le EXCEPT ![lfo] = Bump(le[lfo], MaxChains)]
    ELSE le

\* Faulty variant of Register: the entry is pushed next to the one already there
RegisterPush(vs, w) == vs \cup {w}

\* voicesRef.current[note.name] = {vca}: a keyed assignment replaces the entry
Register(vs, w) == {v \in vs : v.name # w.name} \cup {w}

\* The oscillators of a voice already registered are never stopped and its
\* vca is never disconnected: the old chain stays live next to the new one.
CreateOscillator(A, n) ==
    IF Frequency(n) = 0 THEN A
    ELSE LET A1 == IF HasVoice(A.voices, n) THEN DestroyOscillator(A, n) ELSE A
             w  == [name |-> n,
                    sched |-> EnvelopeSchedule,
                    arpOff |-> "none", arpRel |-> 0,
                    released |-> FALSE, relDur |-> 0]
         IN [A1 EXCEPT !.voices = Register(A1.voices, w),
                       !.chains = [A1.chains EXCEPT ![n] = Bump(A1.chains[n], MaxChains)],
                       !.lfoEdges = ConnectLFO(A1.lfoEdges)]

(* playArpNote (lines 397-405) *)

\* Faulty variant of PlayArpNote: the note-off waits for the release time too
PlayArpNoteLateGate(A, n) ==
    LET A1 == CreateOscillator(A, n)
    IN IF ~HasVoice(A1.voices, n) THEN [A1 EXCEPT !.err = TRUE]
       ELSE LET v == VoiceOf(A1.voices, n)
                w == [v EXCEPT
                        !.sched = v.sched \o
                           << [op |-> "hold", value |-> 0,
                                              at |-> ArpGate + envelope.release],
                              [op |-> "ramp", value |-> 0,
                                              at |-> ArpGate + envelope.release] >>,
                        !.arpOff = "pending",
                        !.arpRel = envelope.release]
            IN [A1 EXCEPT !.voices = (A1.voices \ {v}) \cup {w}]

\* createOscillator, then the destructuring of voicesRef.current[note.name]
\* (a TypeError when there is no entry), then the note-off scheduled at
\* currentTime + 1 with the release read from the envelope state.
PlayArpNote(A, n) ==
    LET A1 == CreateOscillator(A, n)
    IN IF ~HasVoice(A1.voices, n) THEN [A1 EXCEPT !.err = TRUE]
       ELSE LET v == VoiceOf(A1.voices, n)
                w == [v EXCEPT
                        !.sched = v.sched \o
                           << [op |-> "hold", value |-> 0, at |-> ArpGate],
                              [op |-> "ramp", value |-> 0,
                                              at |-> ArpGate + envelope.release] >>,
                        !.arpOff = "pending",
                        !.arpRel = envelope.release]
            IN [A1 EXCEPT !.voices = (A1.voices \ {v}) \cup {w}]

-----------------------------------------------------------------------------
(* The arp effect (lines 136-156), run after a render in which pressedKeys  *)
(* (a new array), currentNote or control.arp changed.  Its cleanup clears   *)
(* the pending timeout; its body plays a note and arms a new timeout.       *)

\* currentNote ? pressedKeys[currentNote] : pressedKeys[0]; "" is undefined
ArpNote(pk, cn) ==
    LET i == IF cn # NoNote /\ cn # 0 THEN cn ELSE 0
    IN IF i + 1 <= Len(pk) THEN pk[i + 1] ELSE ""

\* Result: the audio state, the value of arpClockRef and the note played.
\* A throw in playArpNote leaves the effect before setTimeout is reached.
ArpEffect(A, pk, cn, ctl) ==
    IF ctl.arp /\ Len(pk) > 0
    THEN LET note == ArpNote(pk, cn)
             A1 == IF note # "" THEN PlayArpNote(A, note) ELSE A
         IN [audio |-> A1, clock |-> IF A1.err THEN NoTimer ELSE Armed,
             played |-> note]
    ELSE [audio |-> A, clock |-> NoTimer, played |-> ""]

\* The timeout callback (lines 143-150): the next value of currentNote
NextCursor(pk, cn) == IF cn + 1 = Len(pk) THEN 0 ELSE cn + 1

-----------------------------------------------------------------------------
(* Handler bodies.  H is what a handler has done so far: the audio state,  *)
(* the last value given to setPressedKeys (pkSet: whether it was called)   *)
(* and to setCurrentNote.  pressedKeys, control and currentNote read in a  *)
(* handler are the values of the render the handler closes over.           *)

Start == [audio |-> Audio(voices, chains, lfoEdges, err),
          pk |-> pressedKeys, pkSet |-> FALSE, cn |-> currentNote]

\* Faulty variant of StopNote: the voice is left alone
StopNoteKeepsVoice(H, n, force) ==
    IF control.latch /\ ~force THEN H
    ELSE [H EXCEPT !.pk = Filter(pressedKeys, n), !.pkSet = TRUE]

\* Faulty variant of StopNote: the force argument is ignored
StopNoteUnforced(H, n, force) ==
    IF control.latch THEN H
    ELSE [H EXCEPT !.audio = DestroyOscillator(H.audio, n),
                   !.pk = Filter(pressedKeys, n),
                   !.pkSet = TRUE]

\* stopNote (lines 332-339)
StopNote(H, n, force) ==
    IF control.latch /\ ~force THEN H
    ELSE [H EXCEPT !.audio = DestroyOscillator(H.audio, n),
                   !.pk = Filter(pressedKeys, n),
                   !.pkSet = TRUE]

\* pressedKeys.forEach((note) => stopNote(note, true))
RECURSIVE StopAll(_, _)
StopAll(H, s) ==
    IF s = <<>> THEN H ELSE StopAll(StopNote(H, Head(s), TRUE), Tail(s))

\* pressedKeys.forEach((note) => destroyOscillator(note))
RECURSIVE DestroyAll(_, _)
DestroyAll(A, s) ==
    IF s = <<>> THEN A ELSE DestroyAll(DestroyOscillator(A, Head(s)), Tail(s))

\* pressedKeys.forEach((note) => createOscillator(note))
RECURSIVE CreateAll(_, _)
CreateAll(A, s) ==
    IF s = <<>> THEN A ELSE CreateAll(CreateOscillator(A, Head(s)), Tail(s))

\* Faulty variant of PlayNote: a held note is ignored whatever latch says
PlayNoteNoToggle(H, n) ==
    IF n \in Range(pressedKeys) THEN H
    ELSE LET H2 == [H EXCEPT !.pk = Append(pressedKeys, n), !.pkSet = TRUE]
         IN IF control.arp THEN H2
            ELSE [H2 EXCEPT !.audio = CreateOscillator(H2.audio, n)]

\* Faulty variant of PlayNote: the note is appended without looking for it
PlayNoteNoFind(H, n) ==
    LET H2 == [H EXCEPT !.pk = Append(pressedKeys, n), !.pkSet = TRUE]
    IN IF control.arp THEN H2
       ELSE [H2 EXCEPT !.audio = CreateOscillator(H2.audio, n)]

\* playNote (lines 313-330)
PlayNote(H, n) ==
    LET notePressed == n \in Range(pressedKeys)
        H1 == IF control.latch /\ notePressed THEN StopNote(H, n, TRUE) ELSE H
    IN IF notePressed THEN H1
       ELSE LET H2 == [H1 EXCEPT !.pk = Append(pressedKeys, n), !.pkSet = TRUE]
            IN IF control.arp THEN H2
               ELSE [H2 EXCEPT !.audio = CreateOscillator(H2.audio, n)]

\* Faulty variant of EscapeKey: the closing setPressedKeys([]) is missing
EscapeKeyNoClear(H) == StopAll(H, pressedKeys)

\* handleKeyDown with key Escape (lines 344-349)
EscapeKey(H) == [StopAll(H, pressedKeys) EXCEPT !.pk = <<>>, !.pkSet = TRUE]

\* Faulty variant of ControlChange: turning arp off creates no voice
ControlChangeNoRebuild(H, newControl) ==
    LET H1 == IF control.latch # newControl.latch /\ ~newControl.latch
              THEN [StopAll(H, pressedKeys) EXCEPT !.pk = <<>>, !.pkSet = TRUE]
              ELSE H
    IN IF newControl.arp /\ newControl.arp # control.arp
       THEN [H1 EXCEPT !.cn = 0, !.audio = DestroyAll(H1.audio, pressedKeys)]
       ELSE IF newControl.arp # control.arp
            THEN [H1 EXCEPT !.cn = NoNote]
            ELSE H1

\* handleControlChange (lines 252-273), up to setControl
ControlChange(H, newControl) ==
    LET H1 == IF control.latch # newControl.latch /\ ~newControl.latch
              THEN [StopAll(H, pressedKeys) EXCEPT !.pk = <<>>, !.pkSet = TRUE]
              ELSE H
    IN IF newControl.arp /\ newControl.arp # control.arp
       THEN [H1 EXCEPT !.cn = 0, !.audio = DestroyAll(H1.audio, pressedKeys)]
       ELSE IF newControl.arp # control.arp
            THEN [H1 EXCEPT !.cn = NoNote,
                            !.audio = IF newControl.latch
                                      THEN CreateAll(H1.audio, pressedKeys)
                                      ELSE H1.audio]
            ELSE H1

\* lfoRef.current.frequency !== newLFO.frequency (line 235): the left side
\* is the AudioParam object itself, the right side a number, and an object
\* is never strictly equal to a number
ParamDiffers(param, f) == TRUE

\* handleLFOChange (lines 229-240): the fields written or scheduled
LFOWrites(newLFO) ==
    (IF lfoNode.level # newLFO.level THEN {"level"} ELSE {})
    \cup (IF lfoNode.type # newLFO.type THEN {"type"} ELSE {})
    \cup (IF ParamDiffers("frequency", newLFO.frequency)
          THEN {"frequency"} ELSE {})

\* handleLFOChange (lines 221-228): the edges of the LFO-depth gain
LFOChange(le, dest) ==
    IF lfo # dest
    THEN [t \in Destinations |-> IF t = "filter" /\ dest = "filter" THEN 1 ELSE 0]
    ELSE le

-----------------------------------------------------------------------------
(* A handler's end: the state updates are applied, the component renders   *)
(* again, and the arp effect re-runs when one of its dependencies          *)
(* [pressedKeys, currentNote, control.arp] changed.  setPressedKeys always *)
(* passes a new array, so every call to it changes pressedKeys.            *)

Commit(op, H, ctl) ==
    LET rerun == H.pkSet \/ H.cn # currentNote \/ ctl.arp # control.arp
        E == IF rerun THEN ArpEffect(H.audio, H.pk, H.cn, ctl)
             ELSE [audio |-> H.audio, clock |-> arpClock, played |-> ""]
    IN /\ pressedKeys' = H.pk
       /\ currentNote' = H.cn
       /\ control' = ctl
       /\ voices' = E.audio.voices
       /\ chains' = E.audio.chains
       /\ lfoEdges' = E.audio.lfoEdges
       /\ err' = E.audio.err
       /\ arpClock' = E.clock
       /\ played' = E.played
       /\ ramped' = E.audio.ramped
       /\ lastOp' = op

Op(name, n) == [op |-> name, note |-> n]

-----------------------------------------------------------------------------
(* Actions *)

Init ==
    /\ pressedKeys = <<>>
    /\ currentNote = NoNote
    /\ control = DefaultControl
    /\ envelope = DefaultEnvelope
    /\ envelopeRef = DefaultEnvelope
    /\ lfo = DefaultLFO.destination
    /\ voices = {}
    /\ chains = [n \in Notes |-> 0]
    /\ lfoEdges = [t \in Destinations |-> IF t = "filter" THEN 1 ELSE 0]
    /\ lfoNode = [level |-> DefaultLFO.level, type |-> DefaultLFO.type,
                  frequency |-> DefaultLFO.frequency]
    /\ lfoWrites = {}
    /\ arpClock = NoTimer
    /\ err = FALSE
    /\ lastOp = Op("init", "")
    /\ played = ""
    /\ ramped = {}

\* handleKeyDown / handleKeyTouchStart for a key mapped to note n
KeyDown(n) ==
    /\ ~err
    /\ Commit(Op("press", n), PlayNote(Start, n), control)
    /\ lfoWrites' = {}
    /\ UNCHANGED <<envelope, envelopeRef, lfo, lfoNode>>

\* handleKeyUp / handleKeyTouchEnd for a key mapped to note n
KeyUp(n) ==
    /\ ~err
    /\ Commit(Op("release", n), StopNote(Start, n, FALSE), control)
    /\ lfoWrites' = {}
    /\ UNCHANGED <<envelope, envelopeRef, lfo, lfoNode>>

\* handleKeyDown for the Escape key
Escape ==
    /\ ~err
    /\ Commit(Op("escape", ""), EscapeKey(Start), control)
    /\ lfoWrites' = {}
    /\ UNCHANGED <<envelope, envelopeRef, lfo, lfoNode>>

\* handleControlChange with the latch field of the control record toggled
SetLatch(b) ==
    /\ ~err
    /\ b # control.latch
    /\ LET c == [control EXCEPT !.latch = b]
       IN Commit(Op("setLatch", ""), ControlChange(Start, c), c)
    /\ lfoWrites' = {}
    /\ UNCHANGED <<envelope, envelopeRef, lfo, lfoNode>>

\* handleControlChange with the arp field of the control record toggled
SetArp(b) ==
    /\ ~err
    /\ b # control.arp
    /\ LET c == [control EXCEPT !.arp = b]
       IN Commit(Op("setArp", ""), ControlChange(Start, c), c)
    /\ lfoWrites' = {}
    /\ UNCHANGED <<envelope, envelopeRef, lfo, lfoNode>>

\* handleEnvelopeChange (lines 298-301)
HandleEnvelopeChange(e) ==
    /\ ~err
    /\ e # envelope
    /\ envelopeRef' = e
    /\ envelope' = e
    /\ lastOp' = Op("setEnvelope", "")
    /\ played' = ""
    /\ ramped' = {}
    /\ lfoWrites' = {}
    /\ UNCHANGED <<pressedKeys, currentNote, control, lfo, voices, chains,
                   lfoEdges, lfoNode, arpClock, err>>

\* The lfo state: what the last setLFO stored (DEFAULTS.lfo at first)
CurrentLFO == [frequency |-> lfoNode.frequency, level |-> lfoNode.level,
               destination |-> lfo, type |-> lfoNode.type]

\* handleLFOChange (lines 221-242) with the record the LFO panel passes
\* after an edit
HandleLFOChange(newLFO) ==
    /\ ~err
    /\ newLFO # CurrentLFO
    /\ lfoEdges' = LFOChange(lfoEdges, newLFO.destination)
    /\ lfoNode' = [level |-> newLFO.level, type |-> newLFO.type,
                   frequency |-> newLFO.frequency]
    /\ lfoWrites' = LFOWrites(newLFO)
    /\ lfo' = newLFO.destination
    /\ lastOp' = Op("setLFO", "")
    /\ played' = ""
    /\ ramped' = {}
    /\ UNCHANGED <<pressedKeys, currentNote, control, envelope, envelopeRef,
                   voices, chains, arpClock, err>>

\* The pending timeout fires (lines 143-150): setCurrentNote, and the effect
\* re-runs only if currentNote changed.  The fired timeout is gone either way.
ArpTimeout ==
    /\ ~err
    /\ arpClock # NoTimer
    /\ currentNote < MaxCursor
    /\ LET cn == NextCursor(pressedKeys, currentNote)
           A == Audio(voices, chains, lfoEdges, err)
           E == IF cn # currentNote THEN ArpEffect(A, pressedKeys, cn, control)
                ELSE [audio |-> A, clock |-> NoTimer, played |-> ""]
       IN /\ currentNote' = cn
          /\ voices' = E.audio.voices
          /\ chains' = E.audio.chains
          /\ lfoEdges' = E.audio.lfoEdges
          /\ err' = E.audio.err
          /\ arpClock' = E.clock
          /\ played' = E.played
          /\ ramped' = E.audio.ramped
    /\ lastOp' = Op("tick", "")
    /\ lfoWrites' = {}
    /\ UNCHANGED <<pressedKeys, control, envelope, envelopeRef, lfo, lfoNode>>

\* The Midi component calls createOscillator / destroyOscillator directly
\* (lines 463-464), taken here to be the props of the latest render; no
\* React state changes, so nothing re-renders.
MidiNoteOn(n) ==
    /\ ~err
    /\ LET A == CreateOscillator(Audio(voices, chains, lfoEdges, err), n)
       IN /\ voices' = A.voices
          /\ chains' = A.chains
          /\ lfoEdges' = A.lfoEdges
          /\ ramped' = A.ramped
    /\ lastOp' = Op("createVoice", n)
    /\ played' = ""
    /\ lfoWrites' = {}
    /\ UNCHANGED <<pressedKeys, currentNote, control, envelope, envelopeRef,
                   lfo, lfoNode, arpClock, err>>

MidiNoteOff(n) ==
    /\ ~err
    /\ LET A == DestroyOscillator(Audio(voices, chains, lfoEdges, err), n)
       IN /\ voices' = A.voices
          /\ ramped' = A.ramped
    /\ lastOp' = Op("destroyVoice", n)
    /\ played' = ""
    /\ lfoWrites' = {}
    /\ UNCHANGED <<pressedKeys, currentNote, control, envelope, envelopeRef,
                   lfo, lfoNode, chains, lfoEdges, arpClock, err>>

\* The audio clock reaches the note-off time playArpNote scheduled on the
\* vca of note n (lines 400-404): the hold takes effect and the ramp to 0,
\* of the duration fixed when it was scheduled, begins.
ArpNoteOff(n) ==
    /\ ~err
    /\ HasVoice(voices, n)
    /\ LET v == VoiceOf(voices, n)
       IN /\ v.arpOff = "pending"
          /\ voices' = (voices \ {v}) \cup {[v EXCEPT !.arpOff = "begun"]}
    /\ lastOp' = Op("arpNoteOff", n)
    /\ played' = ""
    /\ ramped' = {}
    /\ lfoWrites' = {}
    /\ UNCHANGED <<pressedKeys, currentNote, control, envelope, envelopeRef,
                   lfo, lfoNode, chains, lfoEdges, arpClock, err>>

\* Keyboard, touch, control-panel, timer, MIDI and audio-clock events
Events(N) ==
    \/ \E n \in N : KeyDown(n)
    \/ \E n \in N : KeyUp(n)
    \/ Escape
    \/ \E b \in BOOLEAN : SetLatch(b)
    \/ \E b \in BOOLEAN : SetArp(b)
    \/ ArpTimeout
    \/ \E n \in N : MidiNoteOn(n)
    \/ \E n \in N : MidiNoteOff(n)
    \/ \E n \in N : ArpNoteOff(n)

\* The events over all notes, with the envelope and the LFO panel untouched
Next == Events(Notes)

Spec == Init /\ [][Next]_vars

\* The events over EnvNotes together with edits of the envelope panel
EnvNotes == {"C"}

NextEnvelope ==
    \/ Events(EnvNotes)
    \/ \E e \in Envelopes : HandleEnvelopeChange(e)

SpecEnvelope == Init /\ [][NextEnvelope]_vars

\* The events over LFONotes together with edits of the LFO panel
LFONotes == {"C"}

NextLFO ==
    \/ Events(LFONotes)
    \/ \E l \in LFOSettings : HandleLFOChange(l)

SpecLFO == Init /\ [][NextLFO]_vars

\* Keyboard, touch, control-panel, timer and audio-clock events only: the
\* Midi component is hidden and calls nothing
KeyEvents(N) ==
    \/ \E n \in N : KeyDown(n)
    \/ \E n \in N : KeyUp(n)
    \/ Escape
    \/ \E b \in BOOLEAN : SetLatch(b)
    \/ \E b \in BOOLEAN : SetArp(b)
    \/ ArpTimeout
    \/ \E n \in N : ArpNoteOff(n)

NextKeys == KeyEvents(Notes)

SpecKeys == Init /\ [][NextKeys]_vars

\* The arpeggiator at work: keys of the valid notes going down and up, the
\* arp switch, the timer and the audio clock, together with edits of the
\* envelope panel; latch stays off
NextArp ==
    \/ \E n \in GoodNotes : KeyDown(n)
    \/ \E n \in GoodNotes : KeyUp(n)
    \/ \E b \in BOOLEAN : SetArp(b)
    \/ ArpTimeout
    \/ \E n \in GoodNotes : ArpNoteOff(n)
    \/ \E e \in Envelopes : HandleEnvelopeChange(e)

SpecArp == Init /\ [][NextArp]_vars


-----------------------------------------------------------------------------
(* Properties *)

Held == Range(pressedKeys)

\* A release ramp has been scheduled on the voice by destroyOscillator
Released(v) == v.released

\* The step has scheduled a release ramp on the voice of every note held
\* before it, and leaves each of these voices released
HeldReleased ==
    \A n \in Held :
        HasVoice(voices, n)
        => (n \in ramped' /\ \A v \in voices' : v.name = n => Released(v))

\* C1: arp round-robin coverage.  With arp on and a held set of N >= 1 valid
\* notes that the step leaves unchanged, enabling arp triggers the first held
\* note, every timeout triggers the note after the cursor (wrapping to the
\* first one after the last), and after each of them a timeout is pending
\* again, so that the clock keeps ticking.
C1_RoundRobin ==
    [][ ( /\ control'.arp
          /\ pressedKeys' = pressedKeys
          /\ pressedKeys # <<>>
          /\ Held \subseteq GoodNotes )
        => /\ (lastOp'.op = "setArp" /\ ~control.arp)
                => (played' = pressedKeys[1] /\ arpClock' = Armed)
           /\ (lastOp'.op = "tick" /\ arpClock = Armed /\ currentNote < Len(pressedKeys))
                => /\ played' = pressedKeys[((currentNote + 1) % Len(pressedKeys)) + 1]
                   /\ arpClock' = Armed ]_vars

\* C2: the voice map holds at most one entry per note name.
C2_OneVoicePerNote ==
    \A v, w \in voices : v.name = w.name => v = w

\* C2 witness: a note whose voice was created a second time has one entry
C2_Witness ==
    /\ chains["C"] >= 2
    /\ Cardinality({v \in voices : v.name = "C"}) = 1
    /\ HasVoice(voices, "E")

\* C3: at most one live signal chain (started, not stopped, connected into
\* the filter) per note name, however many note-ons the note received.
C3_OneChainPerNote ==
    \A n \in Notes : chains[n] <= 1

\* C4: turning latch off empties the held set and leaves every voice of a
\* previously held note with its release ramp scheduled.
C4_LatchOffClearsAll ==
    [][ (control.latch /\ ~control'.latch)
        => (pressedKeys' = <<>> /\ HeldReleased) ]_vars

\* C4 witness: latch was just turned off with arp on, and that step released
\* the voices of both notes
C4_Witness ==
    /\ lastOp.op = "setLatch" /\ ~control.latch /\ control.arp
    /\ pressedKeys = <<>>
    /\ ramped = GoodNotes
    /\ \A n \in GoodNotes : HasVoice(voices, n) /\ VoiceOf(voices, n).released

\* C5: the Escape input, with latch on or off, empties the held set and
\* releases the voice of every held note.
C5_EscapeClearsAll ==
    [][ (lastOp'.op = "escape" /\ pressedKeys # <<>>)
        => (pressedKeys' = <<>> /\ HeldReleased) ]_vars

\* C5 witness: Escape has just run with latch on, and that step released the
\* voices of both notes
C5_Witness ==
    /\ lastOp.op = "escape" /\ control.latch
    /\ pressedKeys = <<>>
    /\ ramped = GoodNotes
    /\ \A n \in GoodNotes : HasVoice(voices, n) /\ VoiceOf(voices, n).released

\* C6: the LFO-depth gain has exactly one outgoing connection, and it goes
\* to the target selected last.
C6_SingleLFOEdge ==
    \A t \in Destinations : lfoEdges[t] = (IF t = lfo THEN 1 ELSE 0)

\* C7: when the destruction of a voice begins (destroyOscillator is called
\* on it, or the note-off scheduled by the arpeggiator sets in), the release
\* ramp lasts the envelope release value in effect at that moment.
C7_ReleaseUsesLiveValue ==
    [][ \A v \in voices : \A w \in voices' :
          v.name = w.name
          => /\ (w.name \in ramped' /\ w.released)
                  => (w.relDur = envelopeRef.release)
             /\ (v.arpOff = "pending" /\ w.arpOff = "begun")
                  => (w.arpRel = envelopeRef.release) ]_vars

\* A vca created by the step: no release scheduled or begun on it
Fresh(w) == ~w.released /\ w.arpOff # "begun"

\* C8: a voice created at time t has on its vca exactly gain 0 at t, a ramp
\* to the fixed peak ending at t + attack and a ramp to sustain ending at
\* t + attack + decay, with the envelope values current at the call; nothing
\* else is scheduled on it except the note-off of an arpeggiated note.
C8_EnvelopeSchedule ==
    [][ \A w \in voices' \ voices :
          Fresh(w)
          => /\ Len(w.sched) >= 3
             /\ w.sched[1] = [op |-> "set", value |-> 0, at |-> 0]
             /\ w.sched[2] = [op |-> "ramp", value |-> PeakLevel,
                              at |-> envelopeRef.attack]
             /\ w.sched[3] = [op |-> "ramp", value |-> envelopeRef.sustain,
                              at |-> envelopeRef.attack + envelopeRef.decay]
             /\ (w.arpOff = "none") => Len(w.sched) = 3
             /\ (w.arpOff = "pending")
                  => /\ Len(w.sched) = 5
                     /\ w.sched[4].op = "hold" /\ w.sched[5].value = 0 ]_vars

\* C8 witness: a pressed key's voice with attack 0.1, decay 0.5, sustain 0.2
\* has its ramps ending at 0.1 and 0.6
C8_Witness ==
    /\ lastOp.op = "press"
    /\ envelopeRef = [attack |-> 1, decay |-> 5, sustain |-> 2, release |-> 5]
    /\ \E v \in voices :
          /\ Fresh(v) /\ Len(v.sched) = 3
          /\ v.sched[2].at = 1 /\ v.sched[2].value = PeakLevel
          /\ v.sched[3].at = 6 /\ v.sched[3].value = 2

\* C9: no operation throws.
C9_NoThrow == ~err

\* C10: destroyVoice for a note without a sounding voice (none was created,
\* or it is already released) schedules nothing and changes no state.
C10_DoubleNoteOffNoOp ==
    [][ ( /\ lastOp'.op = "destroyVoice"
          /\ \A v \in voices : v.name = lastOp'.note => Released(v) )
        => (ramped' = {} /\ voices' = voices) ]_vars

\* The arpeggiator is on over a non-empty held set of valid notes
ArpActive == control.arp /\ pressedKeys # <<>> /\ Held \subseteq GoodNotes

\* C11: a clock timeout is pending exactly when arp is on and the held set is
\* non-empty (as long as nothing has thrown).
C11_ClockArmedIffActive ==
    ~err => ((arpClock = Armed) <=> (control.arp /\ pressedKeys # <<>>))

\* C12: a clock tick with arp on over a non-empty held set leaves the cursor
\* within 0 .. len-1, and when the cursor had run past the end of a shrunken
\* set the tick plays the first held note.
C12_TickClampsCursor ==
    [][ (lastOp'.op = "tick" /\ ArpActive)
        => /\ currentNote' \in 0..(Len(pressedKeys) - 1)
           /\ (currentNote >= Len(pressedKeys)) => (played' = pressedKeys[1]) ]_vars

\* C13: when the held set goes from empty to non-empty with arp on, the
\* cursor is 0 and the first held note is the one triggered.
C13_RearmStartsAtFirst ==
    [][ ( /\ control.arp /\ control'.arp
          /\ pressedKeys = <<>> /\ pressedKeys' # <<>>
          /\ Range(pressedKeys') \subseteq GoodNotes )
        => (currentNote' = 0 /\ played' = pressedKeys'[1] /\ arpClock' = Armed) ]_vars

\* C14: a press of a note not yet held, with arp on and the clock armed,
\* appends the note and triggers no voice creation for any note.
C14_PressUnderArpOnlyQueues ==
    [][ ( /\ lastOp'.op = "press"
          /\ ArpActive /\ arpClock = Armed
          /\ lastOp'.note \in GoodNotes \ Held )
        => /\ pressedKeys' = Append(pressedKeys, lastOp'.note)
           /\ played' = ""
           /\ voices' = voices ]_vars

\* C15: every voice the arp effect creates has its note-off scheduled no
\* later than ArpGate after the trigger, with the ramp to 0 starting from it;
\* and a pending note-off is lost only to a release ramp that begins sooner.
C15_ArpNotesBounded ==
    [][ /\ (played' # "" /\ ~err')
           => \E w \in voices' :
                 /\ w.name = played'
                 /\ w.arpOff = "pending"
                 /\ Len(w.sched) = 5
                 /\ w.sched[4].op = "hold" /\ w.sched[4].at <= ArpGate
                 /\ w.sched[5].op = "ramp" /\ w.sched[5].value = 0
        /\ \A v \in voices :
              v.arpOff = "pending"
              => \/ v \in voices'
                 \/ [v EXCEPT !.arpOff = "begun"] \in voices'
                 \/ v.name \in ramped' ]_vars

\* A timeout has just triggered a note under an envelope with a release time
C15_Witness ==
    /\ lastOp.op = "tick" /\ played \in GoodNotes
    /\ envelope.release > 0
    /\ \E w \in voices : w.name = played /\ w.arpOff = "pending"

\* The voice sustains: neither a release ramp nor a note-off is scheduled
Sustaining(v) == ~v.released /\ v.arpOff = "none"

\* C16: with latch on, a press of a held note removes the note, schedules
\* the release ramp on its voice, creates no voice for it and, with arp off,
\* creates no voice at all.
C16_LatchToggle ==
    [][ (lastOp'.op = "press" /\ control.latch /\ lastOp'.note \in Held)
        => /\ pressedKeys' = Filter(pressedKeys, lastOp'.note)
           /\ HasVoice(voices, lastOp'.note) => lastOp'.note \in ramped'
           /\ \A w \in voices' : w.name = lastOp'.note => Released(w)
           /\ played' # lastOp'.note
           /\ ~control.arp => \A w \in voices' : w \in voices \/ Released(w) ]_vars

\* A latched, sounding note has just been pressed again
C16_Witness ==
    /\ lastOp.op = "press" /\ control.latch
    /\ lastOp.note \in GoodNotes \ Held
    /\ lastOp.note \in ramped
    /\ Held # {}

\* C17: toggling arp leaves the held notes as they are; turning it on
\* schedules the release ramp on the voice of every held note and sets the
\* cursor to 0; turning it off clears the cursor and, with latch on, leaves
\* a sustaining voice for every held note that has a frequency.
C17_ArpToggleRebuilds ==
    [][ (lastOp'.op = "setArp")
        => /\ pressedKeys' = pressedKeys
           /\ control'.arp
              => /\ currentNote' = 0
                 /\ \A n \in Held : HasVoice(voices, n) => n \in ramped'
           /\ ~control'.arp
              => /\ currentNote' = NoNote
                 /\ control'.latch
                    => \A n \in Held \cap GoodNotes :
                          \E w \in voices' : w.name = n /\ Sustaining(w) ]_vars

\* Arp has just been turned off with latch on and both valid notes held,
\* one of which the arpeggiator had left releasing
C17_Witness ==
    /\ lastOp.op = "setArp" /\ ~control.arp /\ control.latch
    /\ GoodNotes \subseteq Held
    /\ \A n \in GoodNotes : \E w \in voices : w.name = n /\ Sustaining(w)

\* No element occurs twice in the sequence
NoDuplicates(s) == \A i, j \in 1..Len(s) : s[i] = s[j] => i = j

\* The elements of s that are in S, in the order of s
Restrict(s, S) == SelectSeq(s, LAMBDA x : x \in S)

\* C19: pressedKeys never holds a note twice, and a step either leaves the
\* remaining notes in their order or is a press that appends a new note.
C19_HeldKeySetOrdered ==
    [][ /\ NoDuplicates(pressedKeys')
        /\ \/ pressedKeys' = Restrict(pressedKeys, Range(pressedKeys'))
           \/ /\ lastOp'.op = "press"
              /\ lastOp'.note \notin Held
              /\ pressedKeys' = Append(pressedKeys, lastOp'.note) ]_vars

\* Three notes are held, E from the first of the presses and C from the last
C19_Witness ==
    /\ Len(pressedKeys) = 3
    /\ lastOp = Op("press", "C")
    /\ pressedKeys[1] = "E" /\ pressedKeys[3] = "C"

\* C20: without calls from the Midi component, every sustaining voice
\* belongs to a note in pressedKeys.
C20_NoStuckNotes ==
    \A v \in voices : Sustaining(v) => v.name \in Held

\* A key-up was ignored under latch: the note is held and its voice sustains
C20_Witness ==
    /\ lastOp.op = "release" /\ control.latch
    /\ \E v \in voices : v.name = lastOp.note /\ Sustaining(v)
    /\ \E v \in voices : v.name # lastOp.note /\ Released(v)

\* C18: handleLFOChange writes or schedules the depth, the wave shape and
\* the frequency of the LFO exactly for the fields whose new value differs
\* from the current one.
C18_LFOUpdatesGuarded ==
    [][ (lastOp'.op = "setLFO")
        => lfoWrites' = {f \in {"level", "type", "frequency"} :
                            lfoNode'[f] # lfoNode[f]} ]_vars

====
